---- MODULE Spec2Model ----
(***************************************************************************)
(* Model of src/server.py: the "Stock Data" tool server.  Every tool is a  *)
(* handler that queries the market-data client (yfinance), shapes the      *)
(* answer and returns json.dumps of it.  One action per tool; the answers  *)
(* of the client are the inputs, drawn from small sets.                    *)
(***************************************************************************)
EXTENDS Integers, Sequences, FiniteSets, TLC

VARIABLES
    op,        \* name of the tool invoked last ("idle" before any invocation)
    args,      \* its arguments
    resp,      \* what the client answered to its retrievals
    calls,     \* the retrievals it made, in order
    outcome,   \* "returned" or "raised"
    result,    \* the object handed to json.dumps, or the escaping exception
    divisions, \* denominators with which 1 / trailingPE was evaluated
    tasks,     \* the invocations in flight: position, arguments, answers
    locals     \* the local variables of the handlers, by scope

vars == <<op, args, resp, calls, outcome, result, divisions, tasks, locals>>

----------------------------------------------------------------------------
(* Python values.  A number is a decimal v * 10^-e.                        *)

Null == [t |-> "null"]
NaN == [t |-> "nan"]
Dec(v, e) == [t |-> "num", v |-> v, e |-> e]
Str(s) == [t |-> "str", s |-> s]
\* a symbol is a sequence of characters
Sym(chars) == [t |-> "str", chars |-> chars]
\* an f-string: its template and the values substituted
FStr(template, a) == [t |-> "str", f |-> template, a |-> a]

IsNum(x) == x.t = "num"
IsNull(x) == x.t = "null"
IsNaN(x) == x.t = "nan"
IsStr(x) == x.t = "str"

RECURSIVE Pow10(_)
Pow10(e) == IF e = 0 THEN 1 ELSE 10 * Pow10(e - 1)

\* round(n / d) to the nearest integer, ties to the even one (d > 0)
RoundHalfEven(n, d) ==
    LET q == n \div d
        r == n % d
    IN  IF 2 * r < d THEN q
        ELSE IF 2 * r > d THEN q + 1
        ELSE IF q % 2 = 0 THEN q ELSE q + 1

\* round(x, ndigits) of a float: NaN stays NaN
Round(x, ndigits) ==
    IF IsNaN(x) THEN NaN
    ELSE IF x.e <= ndigits THEN Dec(x.v * Pow10(ndigits - x.e), ndigits)
    ELSE Dec(RoundHalfEven(x.v, Pow10(x.e - ndigits)), ndigits)

\* dict.get(key, default)
Get(d, key, default) == IF key \in DOMAIN d THEN d[key] ELSE default

\* the value of an object in a boolean context
Truthy(x) ==
    CASE IsNull(x) -> FALSE
      [] IsNum(x) -> x.v # 0
      [] IsNaN(x) -> TRUE
      [] IsStr(x) -> x # Str("")

----------------------------------------------------------------------------
(* What a handler does: the retrievals made, and how it ended.             *)

Returned(c, obj, d) ==
    [calls |-> c, outcome |-> "returned", result |-> obj, divisions |-> d]
Raised(c, exc, d) ==
    [calls |-> c, outcome |-> "raised", result |-> [exception |-> exc], divisions |-> d]

Call(attr, symbol) == [attr |-> attr, symbol |-> symbol]

\* faulty variant: the retrieval is made a second time
RetrieveTwice(attr, symbol) == <<Call(attr, symbol), Call(attr, symbol)>>
\* t = yf.Ticker(symbol) and one access of t: a single retrieval
Retrieve(attr, symbol) == <<Call(attr, symbol)>>

\* answers of the client to one retrieval
Raise(msg) == [kind |-> "raise", msg |-> msg]
Ok(data) == [kind |-> "ok", data |-> data]

\* faulty variant: the error record is tagged with a kind
FailedWithKind(c, r) ==
    Returned(c, [kind |-> Str("InternalFailure"),
                 error |-> FStr("Failed: {str(e)}", <<r.msg>>)], <<>>)
\* except Exception as e: return json.dumps({"error": f"Failed: {str(e)}"})
Failed(c, r) == Returned(c, [error |-> FStr("Failed: {str(e)}", <<r.msg>>)], <<>>)

ExcMsgs == {"HTTP Error 404", "Too Many Requests"}
Symbols == {<<"A", "A", "P", "L">>, <<"8", "7", "6", "6", ".", "T">>}

----------------------------------------------------------------------------
(* t.info payloads: a dict over some of the provider's keys.               *)

InfoKeys ==
    {"longName", "currency", "currentPrice", "marketCap",
     "trailingPE", "trailingPegRatio", "sector"}

PEValues ==
    {Null, NaN, Str("Infinity"), Dec(0, 2), Dec(-1250, 2),
     Dec(128, 2), Dec(300, 2), Dec(2875, 2)}

InfoValues(k) ==
    CASE k = "trailingPE" -> PEValues
      [] k = "trailingPegRatio" -> {Null, Dec(210, 2)}
      [] k = "longName" -> {Null, Str("Apple Inc.")}
      [] k = "currency" -> {Str("USD")}
      [] k = "sector" -> {Str("Technology")}
      [] k = "currentPrice" -> {Dec(18950, 2)}
      [] k = "marketCap" -> {Dec(2900000, 0)}

RECURSIVE Payloads(_)
Payloads(keys) ==
    IF keys = {} THEN {<<>>}
    ELSE LET k == CHOOSE x \in keys : TRUE
             rest == Payloads(keys \ {k})
         IN  rest \cup
             { [x \in DOMAIN p \cup {k} |-> IF x = k THEN v ELSE p[x]] :
                 p \in rest, v \in InfoValues(k) }

InfoPayloads == Payloads(InfoKeys)

InfoResponses == {Raise(m) : m \in ExcMsgs} \cup {Ok(i) : i \in InfoPayloads}

\* ticker_info: the info dict, or an error dict
ticker_info(symbol, r) ==
    IF r.kind = "raise"
    THEN [error |-> FStr("Failed to fetch data for {symbol}: {str(e)}", <<symbol, r.msg>>)]
    ELSE LET info == r.data IN
         IF \/ DOMAIN info = {}
            \/ (IsNull(Get(info, "trailingPegRatio", Null)) /\ Cardinality(DOMAIN info) < 5)
         THEN [error |-> FStr("No data found for {symbol}. Check the ticker symbol.", <<symbol>>)]
         ELSE info

----------------------------------------------------------------------------
(* Records shaped from info: every field is info.get(source key), with ""  *)
(* as the default of the text fields.                                      *)

SourceKey(f) ==
    CASE f = "name" -> "longName"
      [] f = "employees" -> "fullTimeEmployees"
      [] f = "description" -> "longBusinessSummary"
      [] OTHER -> f

DefaultEmpty ==
    {"name", "sector", "industry", "country", "currency", "exchange",
     "website", "description"}

InfoField(info, f) ==
    Get(info, SourceKey(f), IF f \in DefaultEmpty THEN Str("") ELSE Null)

\* faulty variant: the fields whose source is absent are left out
ShapeInfoPresent(symbol, info, fields) ==
    [f \in {"symbol"} \cup {g \in fields : SourceKey(g) \in DOMAIN info} |->
        IF f = "symbol" THEN Sym(symbol) ELSE info[SourceKey(f)]]
ShapeInfo(symbol, info, fields) ==
    [f \in {"symbol"} \cup fields |->
        IF f = "symbol" THEN Sym(symbol) ELSE InfoField(info, f)]

ProfileFields ==
    {"name", "sector", "industry", "country", "currency", "exchange",
     "marketCap", "employees", "website", "description", "beta", "trailingPE",
     "forwardPE", "dividendYield", "dividendRate", "payoutRatio", "priceToBook",
     "enterpriseValue", "profitMargins", "grossMargins", "operatingMargins",
     "returnOnEquity", "returnOnAssets", "debtToEquity", "currentRatio",
     "quickRatio", "freeCashflow", "operatingCashflow", "totalRevenue",
     "revenueGrowth", "earningsGrowth", "targetMeanPrice", "recommendationKey",
     "numberOfAnalystOpinions", "fiftyTwoWeekHigh", "fiftyTwoWeekLow",
     "currentPrice", "sharesOutstanding", "floatShares", "heldPercentInsiders",
     "heldPercentInstitutions", "shortRatio", "shortPercentOfFloat"}

get_company_profile(symbol, r) ==
    LET info == ticker_info(symbol, r)
        c == Retrieve("info", symbol)
    IN  IF "error" \in DOMAIN info
        THEN Returned(c, info, <<>>)
        ELSE Returned(c, ShapeInfo(symbol, info, ProfileFields), <<>>)

QuoteFields ==
    {"name", "currency", "currentPrice", "previousClose", "open", "dayHigh",
     "dayLow", "volume", "averageVolume", "marketCap", "trailingPE", "forwardPE",
     "trailingEps", "dividendYield", "fiftyTwoWeekHigh", "fiftyTwoWeekLow",
     "fiftyDayAverage", "twoHundredDayAverage", "sharesOutstanding"}

get_stock_quote(symbol, r) ==
    LET info == ticker_info(symbol, r)
        c == Retrieve("info", symbol)
    IN  IF "error" \in DOMAIN info
        THEN Returned(c, info, <<>>)
        ELSE Returned(c, ShapeInfo(symbol, info, QuoteFields), <<>>)

----------------------------------------------------------------------------
(* get_key_metrics and its derived field earningsYield.                    *)

MetricsFields ==
    {"name", "currency", "currentPrice", "marketCap", "trailingPE", "forwardPE",
     "pegRatio", "priceToBook", "priceToSalesTrailing12Months",
     "enterpriseToRevenue", "enterpriseToEbitda", "enterpriseValue",
     "trailingEps", "forwardEps", "grossMargins", "operatingMargins",
     "profitMargins", "returnOnEquity", "returnOnAssets", "debtToEquity",
     "currentRatio", "quickRatio", "totalDebt", "totalCash", "totalCashPerShare",
     "bookValue", "freeCashflow", "operatingCashflow", "dividendYield",
     "dividendRate", "payoutRatio", "exDividendDate", "lastDividendValue",
     "lastDividendDate", "fiveYearAvgDividendYield", "revenueGrowth",
     "earningsGrowth", "earningsQuarterlyGrowth", "revenueQuarterlyGrowth",
     "totalRevenue", "revenuePerShare", "beta", "shortRatio",
     "shortPercentOfFloat", "sharesOutstanding", "floatShares",
     "heldPercentInsiders", "heldPercentInstitutions", "targetMeanPrice",
     "targetHighPrice", "targetLowPrice", "recommendationKey",
     "numberOfAnalystOpinions"}

\* faulty variant: the quotient is cut after 4 places instead of rounded
Reciprocal4Cut(x) == Dec(Pow10(x.e + 4) \div x.v, 4)
\* 1 / x rounded to 4 places, x a positive number
Reciprocal4(x) == Dec(RoundHalfEven(Pow10(x.e + 4), x.v), 4)

\* the second operand of the guard, info["trailingPE"] > 0, is evaluated only
\* for a truthy trailingPE; it raises TypeError for a str
PEGuard(pe) == Truthy(pe) /\ IsNum(pe) /\ pe.v > 0

\* round(1 / info["trailingPE"], 4) if info.get("trailingPE") and
\* info["trailingPE"] > 0 else None
EarningsYield(info) ==
    LET pe == Get(info, "trailingPE", Null) IN
    IF Truthy(pe) /\ IsStr(pe)
    THEN [raised |-> TRUE, value |-> Null, denoms |-> <<>>]
    ELSE IF PEGuard(pe)
    THEN [raised |-> FALSE, value |-> Reciprocal4(pe), denoms |-> <<pe>>]
    ELSE [raised |-> FALSE, value |-> Null, denoms |-> <<>>]

get_key_metrics(symbol, r) ==
    LET info == ticker_info(symbol, r)
        c == Retrieve("info", symbol)
    IN  IF "error" \in DOMAIN info
        THEN Returned(c, info, <<>>)
        ELSE LET ey == EarningsYield(info)
                 m == ShapeInfo(symbol, info, MetricsFields)
             IN  IF ey.raised
                 THEN Raised(c, "TypeError", ey.denoms)
                 ELSE Returned(c,
                        [f \in DOMAIN m \cup {"earningsYield"} |->
                            IF f = "earningsYield" THEN ey.value ELSE m[f]],
                        ey.denoms)

----------------------------------------------------------------------------
(* Tabular answers of the client.  A DataFrame has column labels (dates),  *)
(* row labels and a cell per row and column; a cell is a number, NaN or    *)
(* None.                                                                   *)

MaxCols == 2
MaxLines == 2
MaxRows == 2

Dates == {[y |-> 2023, m |-> 9, d |-> 30], [y |-> 2022, m |-> 12, d |-> 31]}

Pad2(n) == IF n < 10 THEN "0" \o ToString(n) ELSE ToString(n)

\* faulty variant: the key is the year alone
StrftimeYear(ts) == ToString(ts.y)
\* ts.strftime("%Y-%m-%d"), for a four-digit year
Strftime(ts) == ToString(ts.y) \o "-" \o Pad2(ts.m) \o "-" \o Pad2(ts.d)

\* the sequences over S of length at most n
RECURSIVE Seqs(_, _)
Seqs(S, n) ==
    IF n = 0 THEN {<<>>}
    ELSE LET shorter == Seqs(S, n - 1) IN
         shorter \cup
         { Append(q, x) : q \in {z \in shorter : Len(z) = n - 1}, x \in S }

LineItems == <<"Total Revenue", "Net Income", "EBITDA">>

CellValues == {Dec(3943280, 1), NaN, Null}

Frame(cs, ix, c) == [columns |-> cs, index |-> ix, cell |-> c]

\* column labels: distinct dates
ColumnSeqs ==
    { q \in Seqs(Dates, MaxCols) : 
        \A i, j \in 1..Len(q) : q[i] = q[j] => i = j }

StatementFrames ==
    UNION { UNION { { Frame(cs, SubSeq(LineItems, 1, n), c) :
                        c \in [(1..n) \X (1..Len(cs)) -> CellValues] } :
                    n \in 0..MaxLines } :
            cs \in ColumnSeqs }

\* column labels are Timestamps: a date and a time of day
Stamps ==
    { [y |-> 2023, m |-> 9, d |-> 30, hh |-> 0],
      [y |-> 2023, m |-> 9, d |-> 30, hh |-> 16],
      [y |-> 2023, m |-> 12, d |-> 31, hh |-> 0],
      [y |-> 2022, m |-> 9, d |-> 30, hh |-> 0] }

\* distinct labels, some of them on the same day
StampSeqs ==
    { q \in Seqs(Stamps, MaxCols) :
        /\ Len(q) > 0
        /\ \A i, j \in 1..Len(q) : q[i] = q[j] => i = j }

\* statements whose figures differ from column to column
LedgerFrames ==
    { Frame(cs, SubSeq(LineItems, 1, n),
            [p \in (1..n) \X (1..Len(cs)) |-> Dec(100 * p[2] + p[1], 0)]) :
        cs \in StampSeqs, n \in 1..MaxLines }

None == [kind |-> "ok", data |-> [none |-> TRUE]]
IsNone(df) == "none" \in DOMAIN df

StatementResponses ==
    {Raise(m) : m \in ExcMsgs} \cup {None}
        \cup {Ok(df) : df \in StatementFrames \cup LedgerFrames}

\* faulty variant: an empty frame is not noticed
EmptyNever(df) == FALSE
\* df.empty
Empty(df) == Len(df.columns) = 0 \/ Len(df.index) = 0

\* None if str(val) == "nan" else val
CanonicalCell(val) == IF IsNaN(val) THEN Null ELSE val

\* the inner dict of one column
ColumnItems(df, j) ==
    [idx \in {df.index[i] : i \in 1..Len(df.index)} |->
        LET i == CHOOSE i \in 1..Len(df.index) : df.index[i] = idx
        IN  CanonicalCell(df.cell[<<i, j>>])]

\* for col in df.columns: result[period_key] = {...}
RECURSIVE PeriodKeyed(_, _, _)
PeriodKeyed(df, j, acc) ==
    IF j > Len(df.columns) THEN acc
    ELSE LET period_key == Strftime(df.columns[j]) IN
         PeriodKeyed(df, j + 1,
            [k \in DOMAIN acc \cup {period_key} |->
                IF k = period_key THEN ColumnItems(df, j) ELSE acc[k]])

\* the body shared by get_income_statement, get_balance_sheet, get_cash_flow
Statement(symbol, attr, nodata, r) ==
    LET c == Retrieve(attr, symbol) IN
    IF r.kind = "raise"
    THEN Failed(c, r)
    ELSE IF IsNone(r.data) \/ Empty(r.data)
    THEN Returned(c, [error |-> FStr(nodata, <<symbol>>)], <<>>)
    ELSE Returned(c, PeriodKeyed(r.data, 1, <<>>), <<>>)

get_income_statement(symbol, period, r) ==
    Statement(symbol,
              IF period = "quarterly" THEN "quarterly_financials" ELSE "financials",
              "No income statement data for {symbol}", r)

get_balance_sheet(symbol, period, r) ==
    Statement(symbol,
              IF period = "quarterly" THEN "quarterly_balance_sheet" ELSE "balance_sheet",
              "No balance sheet data for {symbol}", r)

get_cash_flow(symbol, period, r) ==
    Statement(symbol,
              IF period = "quarterly" THEN "quarterly_cashflow" ELSE "cashflow",
              "No cash flow data for {symbol}", r)

----------------------------------------------------------------------------
(* get_price_history and get_dividend_history: one record per row.         *)

\* d[k] = v
Put(d, k, v) == [x \in DOMAIN d \cup {k} |-> IF x = k THEN v ELSE d[x]]

PriceValues == {Dec(18912346, 5), NaN}
VolumeValues == {Dec(52164300, 0), Dec(521643009, 1), NaN}

HistRows ==
    { [date |-> d, Open |-> o, High |-> Dec(19105, 2), Low |-> Dec(187, 0),
       Close |-> Dec(1895, 1), Volume |-> v] :
        d \in Dates, o \in PriceValues, v \in VolumeValues }

HistoryResponses ==
    {Raise(m) : m \in ExcMsgs} \cup {None}
        \cup {Ok([rows |-> q]) : q \in Seqs(HistRows, MaxRows)}

\* int(x) of a float: the integral part; ValueError for NaN
IntRaises(x) == IsNaN(x)
PyInt(x) == Dec(x.v \div Pow10(x.e), 0)

PriceRecord(row) ==
    [date |-> Str(Strftime(row.date)),
     open |-> Round(row.Open, 4),
     high |-> Round(row.High, 4),
     low |-> Round(row.Low, 4),
     close |-> Round(row.Close, 4),
     volume |-> PyInt(row.Volume)]

\* for date, row in hist.iterrows(): the records so far, or the exception
RECURSIVE PriceRows(_, _, _)
PriceRows(rows, i, acc) ==
    IF i > Len(rows) THEN [raised |-> FALSE, prices |-> acc]
    ELSE IF IntRaises(rows[i].Volume) THEN [raised |-> TRUE, prices |-> acc]
    ELSE PriceRows(rows, i + 1, Append(acc, PriceRecord(rows[i])))

get_price_history(symbol, period, interval, r) ==
    LET c == Retrieve("history", symbol) IN
    IF r.kind = "raise"
    THEN Failed(c, r)
    ELSE IF IsNone(r.data) \/ Len(r.data.rows) = 0
    THEN Returned(c, [error |-> FStr("No price history for {symbol}", <<symbol>>)], <<>>)
    ELSE LET p == PriceRows(r.data.rows, 1, <<>>) IN
         IF p.raised
         THEN Failed(c, Raise("cannot convert float NaN to integer"))
         ELSE Returned(c, [symbol |-> Sym(symbol), period |-> Str(period),
                           interval |-> Str(interval),
                           dataPoints |-> Dec(Len(r.data.rows), 0),
                           prices |-> p.prices], <<>>)

AmountValues == {Dec(2412346, 7), Dec(24, 2), NaN}

DividendResponses ==
    {Raise(m) : m \in ExcMsgs} \cup {None}
        \cup {Ok([rows |-> q]) :
                q \in Seqs({[date |-> d, amount |-> a] : d \in Dates, a \in AmountValues},
                           MaxRows)}

DividendRecord(row) ==
    [date |-> Str(Strftime(row.date)), amount |-> Round(row.amount, 6)]

RECURSIVE DividendRows(_, _, _)
DividendRows(rows, i, acc) ==
    IF i > Len(rows) THEN acc
    ELSE DividendRows(rows, i + 1, Append(acc, DividendRecord(rows[i])))

\* faulty variant: the empty answer carries an error next to its data fields
NoDividendsError(symbol) ==
    [symbol |-> Sym(symbol), dividends |-> <<>>,
     error |-> Str("No dividend history found")]
\* what get_dividend_history returns for an empty or absent series
NoDividends(symbol) ==
    [symbol |-> Sym(symbol), dividends |-> <<>>,
     message |-> Str("No dividend history found")]

get_dividend_history(symbol, r) ==
    LET c == Retrieve("dividends", symbol) IN
    IF r.kind = "raise"
    THEN Failed(c, r)
    ELSE IF IsNone(r.data) \/ Len(r.data.rows) = 0
    THEN Returned(c, NoDividends(symbol), <<>>)
    ELSE Returned(c, [symbol |-> Sym(symbol),
                      dividendCount |-> Dec(Len(r.data.rows), 0),
                      dividends |-> DividendRows(r.data.rows, 1, <<>>)], <<>>)

----------------------------------------------------------------------------
(* get_holders and get_analyst_recommendations: composite records, one     *)
(* section per retrieval.                                                  *)

HeadRows == 10
TailRows == 20

\* str(x)
StrOf(x) ==
    IF IsStr(x) THEN x
    ELSE IF IsNaN(x) THEN Str("nan")
    ELSE [t |-> "str", of |-> x]

\* rows of t.major_holders: <<value, label>>
MajorFrames ==
    { <<>>,
      << <<Dec(9, 4), Str("insidersPercentHeld")>>,
         <<Dec(6042, 4), Str("institutionsPercentHeld")>> >>,
      << <<NaN, Str("insidersPercentHeld")>> >> }

HolderRow(pct) ==
    [Holder |-> Str("Vanguard Group Inc"), Shares |-> Dec(1300000000, 0), pctHeld |-> pct]

\* n rows, the k-th with a NaN cell
HolderFrame(n, k) ==
    [i \in 1..n |-> IF i = k THEN HolderRow(NaN) ELSE HolderRow(Dec(i, 2))]

HolderFrames ==
    {HolderFrame(n, k) : n \in {0, 1, HeadRows + 1}, k \in {0, 1}}

FrameResponses(frames) ==
    {Raise(m) : m \in ExcMsgs} \cup {None} \cup {Ok([rows |-> q]) : q \in frames}

\* df is not None and not df.empty
HasRows(r) == ~IsNone(r.data) /\ Len(r.data.rows) > 0

\* df.head(n), df.tail(n)
Head_(rows, n) == SubSeq(rows, 1, IF Len(rows) < n THEN Len(rows) ELSE n)
Tail_(rows, n) == SubSeq(rows, IF Len(rows) < n THEN 1 ELSE Len(rows) - n + 1, Len(rows))

\* for _, row in mh.iterrows(): d[str(row.iloc[1])] = str(row.iloc[0])
RECURSIVE MajorHolders(_, _, _)
MajorHolders(rows, i, acc) ==
    IF i > Len(rows) THEN acc
    ELSE MajorHolders(rows, i + 1, Put(acc, StrOf(rows[i][2]).s, StrOf(rows[i][1])))

\* rs: the answers to t.major_holders, t.institutional_holders, t.mutualfund_holders
get_holders(symbol, rs) ==
    LET c1 == Retrieve("major_holders", symbol)
        c2 == c1 \o Retrieve("institutional_holders", symbol)
        c3 == c2 \o Retrieve("mutualfund_holders", symbol)
        d0 == [symbol |-> Sym(symbol)]
        d1 == IF HasRows(rs[1])
              THEN Put(d0, "majorHolders", MajorHolders(rs[1].data.rows, 1, <<>>))
              ELSE d0
        d2 == IF HasRows(rs[2])
              THEN Put(d1, "topInstitutionalHolders", Head_(rs[2].data.rows, HeadRows))
              ELSE d1
        d3 == IF HasRows(rs[3])
              THEN Put(d2, "topMutualFundHolders", Head_(rs[3].data.rows, HeadRows))
              ELSE d2
    IN  IF rs[1].kind = "raise" THEN Failed(c1, rs[1])
        ELSE IF rs[2].kind = "raise" THEN Failed(c2, rs[2])
        ELSE IF rs[3].kind = "raise" THEN Failed(c3, rs[3])
        ELSE Returned(c3, d3, <<>>)

RecRow(i) == [period |-> Str("0m"), strongBuy |-> Dec(i, 0), hold |-> Dec(12, 0)]

RecFrames == { [i \in 1..n |-> RecRow(i)] : n \in {0, 1, TailRows + 1} }

RecInfoPayloads ==
    { <<>>,
      [currency |-> Str("USD")],
      [targetMeanPrice |-> Dec(21050, 2), recommendationKey |-> Str("buy")] }

TargetFields ==
    {"targetMeanPrice", "targetHighPrice", "targetLowPrice", "recommendationKey",
     "numberOfAnalystOpinions"}

\* result[f] = info.get(f) for the target fields
Targets(d, info) ==
    [x \in DOMAIN d \cup TargetFields |->
        IF x \in TargetFields THEN Get(info, x, Null) ELSE d[x]]

\* rs: the answers to t.recommendations and t.info
get_analyst_recommendations(symbol, rs) ==
    LET c1 == Retrieve("recommendations", symbol)
        c2 == c1 \o Retrieve("info", symbol)
        d0 == [symbol |-> Sym(symbol)]
        d1 == IF HasRows(rs[1])
              THEN Put(d0, "recommendations", Tail_(rs[1].data.rows, TailRows))
              ELSE d0
        d2 == IF DOMAIN rs[2].data # {} THEN Targets(d1, rs[2].data) ELSE d1
    IN  IF rs[1].kind = "raise" THEN Failed(c1, rs[1])
        ELSE IF rs[2].kind = "raise" THEN Failed(c2, rs[2])
        ELSE Returned(c2, d2, <<>>)

----------------------------------------------------------------------------
(* search_company                                                          *)

SearchLimit == 10

Quotes ==
    << [symbol |-> Str("8766.T"), shortname |-> Str("TOKIO MARINE HOLDINGS INC"),
        exchange |-> Str("JPX"), quoteType |-> Str("EQUITY")],
       [symbol |-> Str("TKOMY"), longname |-> Str("Tokio Marine Holdings, Inc."),
        exchange |-> Str("PNK")],
       [exchange |-> Str("NYQ")] >>

\* n quotes, cycling through Quotes
QuoteList(n) == [i \in 1..n |-> Quotes[((i - 1) % Len(Quotes)) + 1]]

SearchResponses ==
    {Raise(m) : m \in ExcMsgs} \cup {None}
        \cup {Ok([quotes |-> QuoteList(n)]) : n \in {0, 1, 2, 3, SearchLimit + 1}}

SearchHit(q) ==
    [symbol |-> Get(q, "symbol", Str("")),
     name |-> Get(q, "shortname", Get(q, "longname", Str(""))),
     exchange |-> Get(q, "exchange", Str("")),
     type |-> Get(q, "quoteType", Str(""))]

RECURSIVE SearchHits(_, _, _)
SearchHits(qs, i, acc) ==
    IF i > Len(qs) THEN acc
    ELSE SearchHits(qs, i + 1, Append(acc, SearchHit(qs[i])))

search_company(query, r) ==
    LET c == Retrieve("Search", query) IN
    IF r.kind = "raise"
    THEN Returned(c, [error |-> FStr("Search failed: {str(e)}", <<r.msg>>)], <<>>)
    ELSE IF IsNone(r.data) \/ Len(r.data.quotes) = 0
    THEN Returned(c, <<>>, <<>>)
    ELSE Returned(c, SearchHits(Head_(r.data.quotes, SearchLimit), 1, <<>>), <<>>)

----------------------------------------------------------------------------
(* compare_stocks: the argument is one string, a sequence of characters.   *)

MaxStocks == 10
MaxEntries == 12

\* the index of the first sep in str, 0 if there is none
RECURSIVE Find(_, _, _)
Find(str, sep, i) ==
    IF i > Len(str) THEN 0
    ELSE IF str[i] = sep THEN i
    ELSE Find(str, sep, i + 1)

\* str.split(sep)
RECURSIVE Split(_, _)
Split(str, sep) ==
    LET i == Find(str, sep, 1) IN
    IF i = 0 THEN <<str>>
    ELSE <<SubSeq(str, 1, i - 1)>> \o Split(SubSeq(str, i + 1, Len(str)), sep)

\* str.strip()
RECURSIVE Strip(_)
Strip(str) ==
    IF str = <<>> THEN str
    ELSE IF Head(str) = " " THEN Strip(Tail(str))
    ELSE IF str[Len(str)] = " " THEN Strip(SubSeq(str, 1, Len(str) - 1))
    ELSE str

\* [s.strip() for s in symbols.split(",")]
RECURSIVE StripAll(_, _, _)
StripAll(parts, i, acc) ==
    IF i > Len(parts) THEN acc
    ELSE StripAll(parts, i + 1, Append(acc, Strip(parts[i])))

CompareFields ==
    {"name", "currency", "currentPrice", "marketCap", "trailingPE", "forwardPE",
     "priceToBook", "enterpriseToEbitda", "dividendYield", "payoutRatio",
     "grossMargins", "operatingMargins", "profitMargins", "returnOnEquity",
     "returnOnAssets", "debtToEquity", "currentRatio", "freeCashflow",
     "operatingCashflow", "revenueGrowth", "earningsGrowth", "beta",
     "sharesOutstanding"}

\* faulty variant: a symbol whose retrieval failed leaves no entry
ErrorEntrySkipped(sym, info) == <<>>
\* the entry appended when ticker_info gave an error dict
ErrorEntry(sym, info) == <<[symbol |-> Sym(sym), error |-> info.error]>>

\* faulty variant: the list is not cut
ProcessedUncut(tickers) == tickers
\* tickers[:10]
Processed(tickers) == Head_(tickers, MaxStocks)

\* for sym in tickers[:10]: provider[sym] is the answer to the retrieval for sym
RECURSIVE CompareLoop(_, _, _, _, _)
CompareLoop(tickers, i, provider, results, c) ==
    IF i > Len(tickers) THEN Returned(c, results, <<>>)
    ELSE LET sym == tickers[i]
             info == ticker_info(sym, provider[sym])
             c1 == c \o Retrieve("info", sym)
         IN  IF "error" \in DOMAIN info
             THEN CompareLoop(tickers, i + 1, provider, results \o ErrorEntry(sym, info), c1)
             ELSE CompareLoop(tickers, i + 1, provider,
                              Append(results, ShapeInfo(sym, info, CompareFields)), c1)

compare_stocks(symbols, provider) ==
    LET tickers == StripAll(Split(symbols, ","), 1, <<>>)
    IN  CompareLoop(Processed(tickers), 1, provider, <<>>, <<>>)

\* the entries a caller writes between the commas
RawEntries == {<<"A", "A", "P", "L">>, <<" ", "D", "0", "5", ".", "S", "I", " ">>, <<>>}

\* ",".join of n entries, cycling through base
RECURSIVE Join(_, _, _)
Join(base, n, i) ==
    LET e == base[((i - 1) % Len(base)) + 1] IN
    IF i = n THEN e ELSE e \o <<",">> \o Join(base, n, i + 1)

CompareInputs ==
    { Join(base, n, 1) : base \in Seqs(RawEntries, 2) \ {<<>>}, n \in 1..MaxEntries }

StrippedEntries == {Strip(e) : e \in RawEntries}

CompareInfos ==
    { <<>>,
      [longName |-> Str("Apple Inc."), currency |-> Str("USD"),
       currentPrice |-> Dec(18950, 2), marketCap |-> Dec(2900000, 0),
       trailingPE |-> Dec(2875, 2)],
      [longName |-> Null, trailingPegRatio |-> Dec(210, 2)] }

CompareResponses == {Raise("HTTP Error 404")} \cup {Ok(i) : i \in CompareInfos}

----------------------------------------------------------------------------
(* The server: one action per tool.                                        *)

MaxInvocations == 2

\* the invocations the server may be running at once
Ids == 1..MaxInvocations

\* faulty variant: the handlers' variables are module-level, one set for all
ScopeShared(id) == 1
\* a handler's variables live in the frame of its own call
Scope(id) == id

\* no invocation in this slot
Idle == [pc |-> "idle"]

\* a frame at entry: tickers, results and the loop position of compare_stocks,
\* and the objects read from the client so far (info, df, mh, ih, mf, rec)
Fresh == [tickers |-> <<>>, results |-> <<>>, i |-> 1, raws |-> <<>>]

Finish(name, a, r, h) ==
    /\ UNCHANGED <<tasks, locals>>
    /\ op' = name
    /\ args' = a
    /\ resp' = r
    /\ calls' = h.calls
    /\ outcome' = h.outcome
    /\ result' = h.result
    /\ divisions' = h.divisions

CompanyProfile ==
    /\ op = "idle"
    /\ \E s \in Symbols, r \in InfoResponses :
        Finish("get_company_profile", [symbol |-> s], <<r>>, get_company_profile(s, r))

StockQuote ==
    /\ op = "idle"
    /\ \E s \in Symbols, r \in InfoResponses :
        Finish("get_stock_quote", [symbol |-> s], <<r>>, get_stock_quote(s, r))

Periods == {"annual", "quarterly"}

IncomeStatement ==
    /\ op = "idle"
    /\ \E s \in Symbols, p \in Periods, r \in StatementResponses :
        Finish("get_income_statement", [symbol |-> s, period |-> p], <<r>>,
               get_income_statement(s, p, r))

BalanceSheet ==
    /\ op = "idle"
    /\ \E s \in Symbols, p \in Periods, r \in StatementResponses :
        Finish("get_balance_sheet", [symbol |-> s, period |-> p], <<r>>,
               get_balance_sheet(s, p, r))

CashFlow ==
    /\ op = "idle"
    /\ \E s \in Symbols, p \in Periods, r \in StatementResponses :
        Finish("get_cash_flow", [symbol |-> s, period |-> p], <<r>>,
               get_cash_flow(s, p, r))

Intervals == {"1mo", "1d"}

PriceHistory ==
    /\ op = "idle"
    /\ \E s \in Symbols, i \in Intervals, r \in HistoryResponses :
        Finish("get_price_history", [symbol |-> s, period |-> "1y", interval |-> i], <<r>>,
               get_price_history(s, "1y", i, r))

DividendHistory ==
    /\ op = "idle"
    /\ \E s \in Symbols, r \in DividendResponses :
        Finish("get_dividend_history", [symbol |-> s], <<r>>, get_dividend_history(s, r))

Holders ==
    /\ op = "idle"
    /\ \E s \in Symbols, r1 \in FrameResponses(MajorFrames),
          r2 \in FrameResponses(HolderFrames), r3 \in FrameResponses(HolderFrames) :
        LET h == get_holders(s, <<r1, r2, r3>>) IN
        Finish("get_holders", [symbol |-> s], SubSeq(<<r1, r2, r3>>, 1, Len(h.calls)), h)

AnalystRecommendations ==
    /\ op = "idle"
    /\ \E s \in Symbols, r1 \in FrameResponses(RecFrames),
          r2 \in {Raise(m) : m \in ExcMsgs} \cup {Ok(i) : i \in RecInfoPayloads} :
        LET h == get_analyst_recommendations(s, <<r1, r2>>) IN
        Finish("get_analyst_recommendations", [symbol |-> s],
               SubSeq(<<r1, r2>>, 1, Len(h.calls)), h)

Queries == {<<"T", "o", "k", "i", "o">>}

SearchCompany ==
    /\ op = "idle"
    /\ \E q \in Queries, r \in SearchResponses :
        Finish("search_company", [query |-> q], <<r>>, search_company(q, r))

CompareStocks ==
    /\ op = "idle"
    /\ \E symbols \in CompareInputs, provider \in [StrippedEntries -> CompareResponses] :
        LET h == compare_stocks(symbols, provider) IN
        Finish("compare_stocks", [symbols |-> symbols],
               [i \in 1..Len(h.calls) |-> provider[h.calls[i].symbol]], h)

KeyMetrics ==
    /\ op = "idle"
    /\ \E s \in Symbols, r \in InfoResponses :
        Finish("get_key_metrics", [symbol |-> s], <<r>>, get_key_metrics(s, r))

\* the payload goes back to the caller; nothing is kept between invocations
Reply ==
    /\ op # "idle"
    /\ op' = "idle"
    /\ args' = <<>>
    /\ resp' = <<>>
    /\ calls' = <<>>
    /\ outcome' = "returned"
    /\ result' = <<>>
    /\ divisions' = <<>>
    /\ UNCHANGED <<tasks, locals>>

Init ==
    /\ op = "idle"
    /\ args = <<>>
    /\ resp = <<>>
    /\ calls = <<>>
    /\ outcome = "returned"
    /\ result = <<>>
    /\ divisions = <<>>
    /\ tasks = [id \in Ids |-> Idle]
    /\ locals = [id \in Ids |-> Fresh]

Next ==
    \/ CompanyProfile
    \/ StockQuote
    \/ KeyMetrics
    \/ IncomeStatement
    \/ BalanceSheet
    \/ CashFlow
    \/ PriceHistory
    \/ DividendHistory
    \/ Holders
    \/ AnalystRecommendations
    \/ SearchCompany
    \/ CompareStocks
    \/ Reply

Spec == Init /\ [][Next]_vars

----------------------------------------------------------------------------
(* The handlers step by step, several invocations in flight.  A step is    *)
(* one read from the client, one pass of the loop of compare_stocks, or    *)
(* the shaping and return; steps of different invocations interleave in    *)
(* any order.                                                              *)

\* the handler of a tool other than compare_stocks, given the client's answers
Handle(name, a, rs) ==
    CASE name = "get_company_profile" -> get_company_profile(a.symbol, rs[1])
      [] name = "get_stock_quote" -> get_stock_quote(a.symbol, rs[1])
      [] name = "get_key_metrics" -> get_key_metrics(a.symbol, rs[1])
      [] name = "get_income_statement" -> get_income_statement(a.symbol, a.period, rs[1])
      [] name = "get_balance_sheet" -> get_balance_sheet(a.symbol, a.period, rs[1])
      [] name = "get_cash_flow" -> get_cash_flow(a.symbol, a.period, rs[1])
      [] name = "get_price_history" ->
            get_price_history(a.symbol, a.period, a.interval, rs[1])
      [] name = "get_dividend_history" -> get_dividend_history(a.symbol, rs[1])
      [] name = "get_holders" -> get_holders(a.symbol, rs)
      [] name = "get_analyst_recommendations" -> get_analyst_recommendations(a.symbol, rs)
      [] name = "search_company" -> search_company(a.query, rs[1])

\* how many objects the handler reads from the client when none raises
Reads(name) ==
    CASE name = "get_holders" -> 3
      [] name = "get_analyst_recommendations" -> 2
      [] OTHER -> 1

\* the handler has a read left: none raised yet and not all are done
More(name, raws) ==
    /\ Len(raws) < Reads(name)
    /\ raws # <<>> => raws[Len(raws)].kind # "raise"

AAPL == <<"A", "A", "P", "L">>

AppleInfo ==
    [longName |-> Str("Apple Inc."), currency |-> Str("USD"),
     currentPrice |-> Dec(18950, 2), marketCap |-> Dec(2900000, 0),
     trailingPE |-> Dec(2875, 2)]

\* what the client answers to the symbols of one compare_stocks invocation
TaskProviders ==
    { [s \in StrippedEntries |-> Ok(AppleInfo)],
      [s \in StrippedEntries |->
          IF s = AAPL THEN Raise("HTTP Error 404") ELSE Ok(<<>>)] }

\* the invocations that run side by side: tool, arguments, client's answers
TaskCalls ==
    { [op |-> "compare_stocks", args |-> [symbols |-> Join(b, 2, 1)], answers |-> p] :
        b \in { <<AAPL, <<" ", "D", "0", "5", ".", "S", "I", " ">> >> },
        p \in TaskProviders }
    \cup
    { [op |-> "get_key_metrics", args |-> [symbol |-> AAPL], answers |-> <<r>>] :
        r \in {Raise("Too Many Requests"),
               Ok([trailingPE |-> Str("Infinity"), trailingPegRatio |-> Dec(210, 2)])} }
    \cup
    { [op |-> "get_income_statement", args |-> [symbol |-> AAPL, period |-> "annual"],
       answers |-> <<Ok(df)>>] :
        df \in {f \in LedgerFrames : Len(f.columns) = 2 /\ Len(f.index) = 1
                                        /\ f.columns[1].hh = 16} }
    \cup
    { [op |-> "get_holders", args |-> [symbol |-> AAPL],
       answers |-> <<Ok([rows |-> << <<Dec(9, 4), Str("insidersPercentHeld")>> >>]),
                     r, None>>] :
        r \in {Raise("HTTP Error 404"), Ok([rows |-> HolderFrame(1, 1)])} }

\* another invocation is between its call and its return
Busy(id) == \E o \in Ids \ {id} : tasks[o].pc \notin {"idle", "done"}

\* invocation id moves to pc; overlap records that it ran beside another
Step(id, pc) ==
    [tasks EXCEPT ![id].pc = pc, ![id].overlap = @ \/ Busy(id)]

\* the handler returns h; its frame is gone
Return(id, h) ==
    /\ tasks' = [tasks EXCEPT ![id] =
                    [pc |-> "done", op |-> @.op, args |-> @.args, answers |-> @.answers,
                     overlap |-> @.overlap \/ Busy(id),
                     outcome |-> h.outcome, result |-> h.result]]
    /\ locals' = [locals EXCEPT ![Scope(id)] = Fresh]

Untouched == UNCHANGED <<op, args, resp, calls, outcome, result, divisions>>

\* a request arrives and its handler is entered
Invoke ==
    \E id \in Ids :
        /\ tasks[id].pc = "idle"
        /\ \E c \in TaskCalls :
            tasks' = [tasks EXCEPT ![id] =
                        [pc |-> "run", op |-> c.op, args |-> c.args,
                         answers |-> c.answers, overlap |-> Busy(id)]]
        /\ locals' = [locals EXCEPT ![Scope(id)] = Fresh]
        /\ Untouched

\* tickers = [s.strip() for s in symbols.split(",")]; results = []
CompareEnter ==
    \E id \in Ids :
        /\ tasks[id].pc = "run"
        /\ tasks[id].op = "compare_stocks"
        /\ tasks' = Step(id, "loop")
        /\ locals' = [locals EXCEPT ![Scope(id)] =
                        [@ EXCEPT !.tickers = StripAll(Split(tasks[id].args.symbols, ","), 1, <<>>),
                                  !.results = <<>>,
                                  !.i = 1]]
        /\ Untouched

\* one pass of the loop: info = ticker_info(sym), results.append(...)
ComparePass ==
    \E id \in Ids :
        LET f == locals[Scope(id)]
            cut == Processed(f.tickers)
        IN  /\ tasks[id].pc = "loop"
            /\ f.i <= Len(cut)
            /\ LET sym == cut[f.i]
                   info == ticker_info(sym, tasks[id].answers[sym])
                   entry == IF "error" \in DOMAIN info
                            THEN ErrorEntry(sym, info)
                            ELSE <<ShapeInfo(sym, info, CompareFields)>>
               IN  locals' = [locals EXCEPT ![Scope(id)] =
                                [@ EXCEPT !.results = f.results \o entry, !.i = f.i + 1]]
            /\ tasks' = Step(id, "loop")
            /\ Untouched

\* return json.dumps(results, ...)
CompareReturn ==
    \E id \in Ids :
        LET f == locals[Scope(id)] IN
        /\ tasks[id].pc = "loop"
        /\ f.i > Len(Processed(f.tickers))
        /\ Return(id, Returned(<<>>, f.results, <<>>))
        /\ Untouched

\* one read from the client: t.info, t.financials, t.major_holders, ...
Fetch ==
    \E id \in Ids :
        LET f == locals[Scope(id)] IN
        /\ tasks[id].pc = "run"
        /\ tasks[id].op # "compare_stocks"
        /\ More(tasks[id].op, f.raws)
        /\ locals' = [locals EXCEPT ![Scope(id)] =
                        [@ EXCEPT !.raws = Append(f.raws, tasks[id].answers[Len(f.raws) + 1])]]
        /\ tasks' = Step(id, "run")
        /\ Untouched

\* the rest of the handler: shaping what was read, and the return
Shape ==
    \E id \in Ids :
        LET f == locals[Scope(id)] IN
        /\ tasks[id].pc = "run"
        /\ tasks[id].op # "compare_stocks"
        /\ ~More(tasks[id].op, f.raws)
        /\ Return(id, Handle(tasks[id].op, tasks[id].args, f.raws))
        /\ Untouched

\* the payload goes back to the caller
Respond ==
    \E id \in Ids :
        /\ tasks[id].pc = "done"
        /\ tasks' = [tasks EXCEPT ![id] = Idle]
        /\ UNCHANGED locals
        /\ Untouched

NextInterleaved ==
    \/ Invoke
    \/ CompareEnter
    \/ ComparePass
    \/ CompareReturn
    \/ Fetch
    \/ Shape
    \/ Respond

Interleaved == Init /\ [][NextInterleaved]_vars

----------------------------------------------------------------------------
(* Properties.                                                             *)

Min(a, b) == IF a < b THEN a ELSE b

\* the entries of the argument of compare_stocks, stripped
Entries == StripAll(Split(args.symbols, ","), 1, <<>>)

\* the number of comma-separated entries of a string
RECURSIVE Commas(_, _)
Commas(str, i) ==
    IF i > Len(str) THEN 0
    ELSE (IF str[i] = "," THEN 1 ELSE 0) + Commas(str, i + 1)

\* a frame without columns or without rows
NoCells(df) == Len(df.columns) = 0 \/ Len(df.index) = 0

IsErrorEntry(e) == "error" \in DOMAIN e

\* C1: compare_stocks returns, and entry i of its result is the record of
\* the i-th stripped input symbol among the processed ones: the comparison
\* record shaped from that symbol's info when its retrieval gave data, the
\* record of that symbol and its error otherwise; failures at other
\* positions change nothing of it.
C1_PositionPreserving ==
    op = "compare_stocks" =>
        /\ outcome = "returned"
        /\ Len(result) = Min(Len(Entries), MaxStocks)
        /\ \A i \in 1..Len(result) :
              LET sym == Entries[i]
                  info == ticker_info(sym, resp[i])
              IN  /\ result[i].symbol = Sym(sym)
                  /\ IF resp[i].kind = "raise" \/ "error" \in DOMAIN info
                     THEN /\ DOMAIN result[i] = {"symbol", "error"}
                          /\ result[i].error = info.error
                     ELSE /\ DOMAIN result[i] = {"symbol"} \cup CompareFields
                          /\ \A f \in CompareFields : result[i][f] = InfoField(info, f)

\* C1 witness: a failed symbol precedes and follows symbols that have data
C1_Witness ==
    /\ op = "compare_stocks"
    /\ Len(result) >= 3
    /\ \E i, j, k \in 1..Len(result) :
          /\ i < j /\ j < k
          /\ ~IsErrorEntry(result[i]) /\ IsErrorEntry(result[j]) /\ ~IsErrorEntry(result[k])
          /\ resp[j].kind = "raise"

\* C2: for n comma-separated entries compare_stocks returns exactly
\* min(n, 10) results, those of the first entries in order, and makes one
\* retrieval for each of them and none for a dropped entry; no error is
\* produced for the excess.
C2_CapAtTen ==
    op = "compare_stocks" =>
        LET n == Commas(args.symbols, 1) + 1
            m == Min(n, MaxStocks)
        IN  /\ outcome = "returned"
            /\ Len(result) = m
            /\ Len(calls) = m
            /\ \A i \in 1..m :
                  /\ result[i].symbol = Sym(Entries[i])
                  /\ calls[i] = Call("info", Entries[i])

\* C2 witness: more than ten entries were supplied and ten came back
C2_Witness ==
    /\ op = "compare_stocks"
    /\ Commas(args.symbols, 1) + 1 > MaxStocks
    /\ Len(result) = MaxStocks
    /\ Len(calls) = MaxStocks

InfoOps == {"get_company_profile", "get_key_metrics", "get_stock_quote"}
StatementOps == {"get_income_statement", "get_balance_sheet", "get_cash_flow"}
RowOps == {"get_price_history", "get_dividend_history"}
CompositeOps == {"get_holders", "get_analyst_recommendations"}

\* the invocation ended by returning a dict (search_company and
\* compare_stocks return lists unless the search failed)
ReturnedDict ==
    /\ outcome = "returned"
    /\ \/ op \in InfoOps \cup StatementOps \cup RowOps \cup CompositeOps
       \/ op = "search_company" /\ resp[1].kind = "raise"

ReturnedError == ReturnedDict /\ "error" \in DOMAIN result

\* the only retrieval of the invocation gave a frame with rows
GaveRows == resp[1].kind = "ok" /\ HasRows(resp[1])

\* C3: no invocation ends by raising, whatever the client answers.
C3_NeverRaises == op # "idle" => outcome = "returned"

IsMissing(x) == IsNaN(x) \/ IsNull(x)

\* C4: in the output of every tabular operation each NaN or missing cell of
\* the raw matrix is null at its place.
C4_MissingCellsAreNull ==
    /\ (op \in StatementOps /\ resp[1].kind = "ok"
            /\ ~IsNone(resp[1].data) /\ ~NoCells(resp[1].data)) =>
        LET df == resp[1].data IN
        /\ ReturnedDict /\ ~ReturnedError
        /\ \A j \in 1..Len(df.columns), i \in 1..Len(df.index) :
              IsMissing(df.cell[<<i, j>>]) =>
                  result[Strftime(df.columns[j])][df.index[i]] = Null
    /\ (op = "get_price_history" /\ GaveRows) =>
        LET rows == resp[1].data.rows IN
        /\ ReturnedDict /\ ~ReturnedError
        /\ \A i \in 1..Len(rows) :
              /\ IsNaN(rows[i].Open) => result.prices[i].open = Null
              /\ IsNaN(rows[i].Volume) => result.prices[i].volume = Null
    /\ (op = "get_dividend_history" /\ GaveRows) =>
        LET rows == resp[1].data.rows IN
        /\ ReturnedDict /\ ~ReturnedError
        /\ \A i \in 1..Len(rows) :
              IsNaN(rows[i].amount) => result.dividends[i].amount = Null
    /\ (op = "get_holders" /\ Len(calls) = 3 /\ ~ReturnedError) =>
        /\ (resp[1].kind = "ok" /\ HasRows(resp[1])) =>
              \A i \in 1..Len(resp[1].data.rows) :
                  LET row == resp[1].data.rows[i] IN
                  IsNaN(row[1]) => result.majorHolders[row[2].s] = Null
        /\ (resp[2].kind = "ok" /\ HasRows(resp[2])) =>
              \A i \in 1..Min(Len(resp[2].data.rows), HeadRows) :
                  IsNaN(resp[2].data.rows[i].pctHeld) =>
                      result.topInstitutionalHolders[i].pctHeld = Null

\* C5: in a key-metrics record earningsYield is null when trailingPE is
\* absent, null, zero or negative, and the decimal of 4 places nearest to
\* 1 / trailingPE when it is a positive number; 1 / trailingPE is evaluated
\* only then, with that positive number as denominator.
C5_EarningsYield ==
    /\ \A i \in 1..Len(divisions) : IsNum(divisions[i]) /\ divisions[i].v > 0
    /\ (op = "get_key_metrics" /\ ReturnedDict /\ ~ReturnedError) =>
        LET pe == Get(resp[1].data, "trailingPE", Null)
            ey == result.earningsYield
        IN  /\ (IsNull(pe) \/ (IsNum(pe) /\ pe.v <= 0)) =>
                  ey = Null /\ divisions = <<>>
            /\ (IsNum(pe) /\ pe.v > 0) =>
                  /\ IsNum(ey) /\ ey.e = 4
                  \* |ey - 1 / pe| <= 0.00005
                  /\ 2 * (ey.v * pe.v - Pow10(pe.e + 4)) <= pe.v
                  /\ 2 * (Pow10(pe.e + 4) - ey.v * pe.v) <= pe.v
                  /\ divisions = <<pe>>

\* C5 witness: a positive trailingPE whose reciprocal has to be rounded up
C5_Witness ==
    /\ op = "get_key_metrics"
    /\ ReturnedDict /\ ~ReturnedError
    /\ Get(resp[1].data, "trailingPE", Null) = Dec(2875, 2)
    /\ result.earningsYield = Dec(348, 4)

\* the client gave nothing: None, an empty frame, an empty dict
EmptyAnswer ==
    /\ op \in InfoOps \cup StatementOps \cup RowOps \cup CompositeOps
    /\ \A i \in 1..Len(resp) : resp[i].kind = "ok"
    /\ CASE op \in InfoOps -> DOMAIN resp[1].data = {}
         [] op \in StatementOps -> IsNone(resp[1].data) \/ NoCells(resp[1].data)
         [] op \in RowOps -> ~HasRows(resp[1])
         [] op = "get_holders" ->
              Len(resp) = 3 /\ \A i \in 1..3 : ~HasRows(resp[i])
         [] op = "get_analyst_recommendations" ->
              Len(resp) = 2 /\ ~HasRows(resp[1]) /\ DOMAIN resp[2].data = {}

FailureTemplates ==
    {"Failed: {str(e)}", "Failed to fetch data for {symbol}: {str(e)}",
     "Search failed: {str(e)}"}

NoDataTemplate ==
    CASE op \in InfoOps -> "No data found for {symbol}. Check the ticker symbol."
      [] op = "get_income_statement" -> "No income statement data for {symbol}"
      [] op = "get_balance_sheet" -> "No balance sheet data for {symbol}"
      [] op = "get_cash_flow" -> "No cash flow data for {symbol}"
      [] op = "get_price_history" -> "No price history for {symbol}"

\* C6: an empty or absent answer of the client gives a no-data error
\* record, unlike the record of a raised exception, never a success record.
C6_EmptyIsNoData ==
    EmptyAnswer =>
        /\ ReturnedError
        /\ DOMAIN result = {"error"}
        /\ result.error.f \notin FailureTemplates

\* C6 amended: for the info-backed operations, the three statements and
\* get_price_history an empty or absent answer gives the error record with
\* the operation's no-data message, which is none of the messages of a
\* raised exception; get_dividend_history returns {symbol, dividends: [],
\* message} and get_holders and get_analyst_recommendations return the
\* record of the symbol alone.
C6_EmptyAnswers ==
    EmptyAnswer =>
        /\ outcome = "returned"
        /\ (op \in InfoOps \cup StatementOps \cup {"get_price_history"}) =>
              /\ DOMAIN result = {"error"}
              /\ result.error = FStr(NoDataTemplate, <<args.symbol>>)
              /\ NoDataTemplate \notin FailureTemplates
        /\ (op = "get_dividend_history") =>
              result = [symbol |-> Sym(args.symbol), dividends |-> <<>>,
                        message |-> Str("No dividend history found")]
        /\ (op \in CompositeOps) => result = [symbol |-> Sym(args.symbol)]

\* C6 witness: get_price_history on an empty window, and an empty statement
C6_Witness ==
    \/ /\ op = "get_price_history"
       /\ resp = <<Ok([rows |-> <<>>])>>
       /\ result = [error |-> FStr("No price history for {symbol}", <<args.symbol>>)]
    \/ /\ op = "get_income_statement"
       /\ resp[1].kind = "ok" /\ ~IsNone(resp[1].data) /\ NoCells(resp[1].data)
       /\ ReturnedError

Declared ==
    CASE op = "get_company_profile" -> {"symbol"} \cup ProfileFields
      [] op = "get_stock_quote" -> {"symbol"} \cup QuoteFields
      [] op = "get_key_metrics" -> {"symbol", "earningsYield"} \cup MetricsFields
      [] op = "get_holders" ->
            {"symbol", "majorHolders", "topInstitutionalHolders", "topMutualFundHolders"}

\* a record shaped from a payload came back
ShapedRecord == op \in InfoOps /\ ReturnedDict /\ ~ReturnedError

\* C7: a successful record has every field declared for its operation, and
\* a field whose source value is absent is null.
C7_AbsentIsNull ==
    /\ ShapedRecord =>
        /\ Declared \subseteq DOMAIN result
        /\ \A f \in Declared \ {"symbol", "earningsYield"} :
              SourceKey(f) \notin DOMAIN resp[1].data => result[f] = Null
    /\ (op = "get_holders" /\ ReturnedDict /\ ~ReturnedError) =>
        Declared \subseteq DOMAIN result

\* C7 amended: a successful profile, quote or key-metrics record has exactly
\* the fields declared for its operation; a field whose source value is
\* absent is null, except the text fields name, sector, industry, country,
\* currency, exchange, website and description, which are the empty string.
\* A successful get_holders record has a section exactly for each retrieval
\* that gave rows.
C7_DeclaredFields ==
    /\ ShapedRecord =>
        /\ DOMAIN result = Declared
        /\ \A f \in Declared \ {"symbol", "earningsYield"} :
              IF SourceKey(f) \in DOMAIN resp[1].data
              THEN result[f] = resp[1].data[SourceKey(f)]
              ELSE result[f] = IF f \in DefaultEmpty THEN Str("") ELSE Null
    /\ (op = "get_holders" /\ ReturnedDict /\ ~ReturnedError) =>
        /\ DOMAIN result \subseteq Declared
        /\ "symbol" \in DOMAIN result
        /\ "majorHolders" \in DOMAIN result <=> HasRows(resp[1])
        /\ "topInstitutionalHolders" \in DOMAIN result <=> HasRows(resp[2])
        /\ "topMutualFundHolders" \in DOMAIN result <=> HasRows(resp[3])

\* C7 witness: a profile whose payload has neither longName nor marketCap
C7_Witness ==
    /\ op = "get_company_profile"
    /\ ShapedRecord
    /\ {"longName", "marketCap"} \cap DOMAIN resp[1].data = {}
    /\ result.name = Str("")
    /\ result.marketCap = Null

ErrorKinds ==
    {Str(k) : k \in {"MissingCredential", "Unauthorized", "Forbidden", "RateLimited",
                     "UpstreamHTTPError", "NoDataFound", "MalformedSymbol",
                     "InternalFailure"}}

\* C8: a returned error record carries, besides its message, a kind that is
\* one of the eight enumerated values.
C8_ErrorKind ==
    ReturnedError => "kind" \in DOMAIN result /\ result.kind \in ErrorKinds

\* C8 amended: a returned error record has the single field error, a
\* message string, and no kind.
C8_ErrorRecord ==
    ReturnedError =>
        /\ DOMAIN result = {"error"}
        /\ IsStr(result.error)
        /\ "f" \in DOMAIN result.error

\* C8 witness: a statement whose retrieval raised
C8_Witness ==
    /\ op = "get_income_statement"
    /\ resp[1].kind = "raise"
    /\ result = [error |-> FStr("Failed: {str(e)}", <<resp[1].msg>>)]

C10_OneRetrieval ==
    /\ op \notin {"idle", "compare_stocks"} => Len(calls) = 1
    /\ op = "compare_stocks" =>
        /\ Len(calls) = Min(Len(Entries), MaxStocks)
        /\ \A i \in 1..Len(calls) : calls[i] = Call("info", Entries[i])

HolderAttrs == <<"major_holders", "institutional_holders", "mutualfund_holders">>
RecommendationAttrs == <<"recommendations", "info">>

\* the retrievals are those of attrs in order, up to the first that raised
PrefixUntilRaise(attrs) ==
    /\ Len(calls) \in 1..Len(attrs)
    /\ Len(resp) = Len(calls)
    /\ \A i \in 1..Len(calls) : calls[i] = Call(attrs[i], args.symbol)
    /\ \A i \in 1..(Len(calls) - 1) : resp[i].kind = "ok"
    /\ Len(calls) < Len(attrs) => resp[Len(calls)].kind = "raise"

\* C10 amended: an operation other than compare_stocks, get_holders and
\* get_analyst_recommendations makes exactly one retrieval, also when it
\* failed or gave nothing; get_holders reads major, institutional and mutual
\* fund holders in this order and get_analyst_recommendations reads the
\* recommendations and the info, each stopping at the first read that
\* raises; compare_stocks makes one retrieval per processed symbol, in
\* input order.
C10_Retrievals ==
    /\ op \notin {"idle", "compare_stocks"} \cup CompositeOps => Len(calls) = 1
    /\ op = "get_holders" => PrefixUntilRaise(HolderAttrs)
    /\ op = "get_analyst_recommendations" => PrefixUntilRaise(RecommendationAttrs)
    /\ op = "compare_stocks" =>
        /\ Len(calls) = Min(Len(Entries), MaxStocks)
        /\ \A i \in 1..Len(calls) : calls[i] = Call("info", Entries[i])

\* C10 witness: get_holders returned its record after three retrievals, and
\* an operation whose only retrieval gave nothing stopped there
C10_Witness ==
    \/ /\ op = "get_holders"
       /\ Len(calls) = 3
       /\ ReturnedDict /\ ~ReturnedError
    \/ /\ op = "get_cash_flow"
       /\ EmptyAnswer
       /\ Len(calls) = 1

\* the calendar date of a column label
DateOf(ts) == <<ts.y, ts.m, ts.d>>

ColumnNumbers(df) == 1..Len(df.columns)

DistinctDates(df) == { DateOf(df.columns[j]) : j \in ColumnNumbers(df) }

\* a statement operation returned the period-keyed mapping of a frame
ShapedStatement ==
    /\ op \in StatementOps
    /\ outcome = "returned"
    /\ resp[1].kind = "ok"
    /\ ~IsNone(resp[1].data)
    /\ ~NoCells(resp[1].data)

\* key k holds the line items of a column dated as column i
HoldsDateOf(k, df, i) ==
    \E z \in ColumnNumbers(df) :
        /\ DateOf(df.columns[z]) = DateOf(df.columns[i])
        /\ result[k] = ColumnItems(df, z)

\* C11: period-keyed shaping is injective on period labels: the output has
\* exactly as many period keys as the frame has distinct column dates, and
\* two columns of different dates are emitted under two different keys, each
\* key holding the line items of its own date, not overwritten by the other's.
C11_InjectiveOnDates ==
    ShapedStatement =>
        LET df == resp[1].data IN
        /\ Cardinality(DOMAIN result) = Cardinality(DistinctDates(df))
        /\ \A i, j \in ColumnNumbers(df) :
              DateOf(df.columns[i]) # DateOf(df.columns[j]) =>
                \E ki, kj \in DOMAIN result :
                    /\ ki # kj
                    /\ HoldsDateOf(ki, df, i)
                    /\ HoldsDateOf(kj, df, j)

\* two columns of one year, on different days, with different figures, came
\* out under two keys
C11_Witness ==
    /\ ShapedStatement
    /\ Len(resp[1].data.columns) = 2
    /\ resp[1].data.columns[1].y = resp[1].data.columns[2].y
    /\ DateOf(resp[1].data.columns[1]) # DateOf(resp[1].data.columns[2])
    /\ ColumnItems(resp[1].data, 1) # ColumnItems(resp[1].data, 2)
    /\ Cardinality(DOMAIN result) = 2

\* what an invocation gives when it runs alone, with the same arguments and
\* the same answers of the client
Alone(t) ==
    IF t.op = "compare_stocks"
    THEN compare_stocks(t.args.symbols, t.answers)
    ELSE Handle(t.op, t.args, t.answers)

\* C12: invocations are independent under any interleaving: whatever steps of
\* other invocations came in between, a finished invocation's result is the
\* result of running it alone with the same arguments and the same provider
\* responses, and an invocation has read nothing but its own answers.
C12_Independent ==
    \A id \in Ids :
        /\ tasks[id].pc = "done" =>
              /\ tasks[id].outcome = Alone(tasks[id]).outcome
              /\ tasks[id].result = Alone(tasks[id]).result
        /\ tasks[id].pc = "run" =>
              \A k \in 1..Len(locals[id].raws) :
                  locals[id].raws[k] = tasks[id].answers[k]
        /\ tasks[id].pc = "loop" =>
              /\ locals[id].i - 1 <= Len(Alone(tasks[id]).result)
              /\ locals[id].results = SubSeq(Alone(tasks[id]).result, 1, locals[id].i - 1)

\* two comparisons ran side by side, with different answers of the client,
\* and both have returned
C12_Witness ==
    \E a, b \in Ids :
        /\ a # b
        /\ tasks[a].pc = "done" /\ tasks[b].pc = "done"
        /\ tasks[a].overlap /\ tasks[b].overlap
        /\ tasks[a].op = "compare_stocks" /\ tasks[b].op = "compare_stocks"
        /\ tasks[a].result # tasks[b].result
        /\ Len(tasks[a].result) = 2

====
